---- MODULE Spec2Model ----
(***************************************************************************)
(* Model of protobuf/build.rs: the build script that builds protobuf once  *)
(* per pinned version under OUT_DIR, publishes it by a rename, and then    *)
(* drives protoc over the fetched source tree.                             *)
(*                                                                         *)
(* A path is a sequence of components; the file system is the set of the   *)
(* paths that exist.  Every fallible call of the script is one step of a   *)
(* run, so that each `?` of the source is a failure point of its own.      *)
(***************************************************************************)
EXTENDS Integers, Sequences, FiniteSets, TLC

\* Number of runs of the script in one behaviour.
MaxRuns == 2

\* PROTOBUF_VERSION: the pinned version of a build of the script.  A second
\* pin stands for another build of the script sharing the same OUT_DIR.
Versions == {"25.8", "26.1"}

\* cfg!(windows) / cfg!(target_os = "macos"): the target the script is built for.
Platforms == {"linux", "macos", "windows"}

\* Script processes; sequential runs reuse the first one.
Procs == {"p", "q"}
SeqProc == "p"

\* Values of OUT_DIR in a run's environment (<<>>: not set).
OutDirs == {<<>>, <<"out">>}

\* Values of DYLD_LIBRARY_PATH in a run's environment ("": unset or empty).
DyldValues == {"", "/usr/lib", "/opt/<FF>/lib"}

\* the values that are not valid Unicode (<FF> stands for the byte 0xFF)
NotUnicode == {"/opt/<FF>/lib"}

\* Random suffixes tempfile may draw for the staging directory's name.
RandSuffixes == {"Ab3xQ9", "Zk81mP"}

NoPath == <<>>

VARIABLES
    platform,   \* the target platform of the script
    fs,         \* the set of paths that exist
    content,    \* the text of each written descriptor, by path
    pc,         \* each process's position in main
    ver,        \* each process's PROTOBUF_VERSION
    env,        \* each process's environment
    tempdir,    \* each process's live TempDir (NoPath: none)
    log,        \* the operations a run has performed, in order
    err,        \* the error a run ended with ("": none)
    emitted,    \* what a run printed as cargo:rustc-env=PROTOBUF=
    runs,       \* number of runs started
    nBuildOk,   \* per version: external builds that returned normally
    cmake       \* cmake's variables while it processes the descriptor

vars == <<platform, fs, content, pc, ver, env, tempdir, log, err, emitted,
          runs, nBuildOk, cmake>>

----------------------------------------------------------------------------
\* Paths (std::path) and the file system (std::fs)

join(p, c) == Append(p, c)

parent(p) == SubSeq(p, 1, Len(p) - 1)

IsPrefix(p, q) == Len(p) <= Len(q) /\ SubSeq(q, 1, Len(p)) = p

\* Path::display
RECURSIVE display(_)
display(p) ==
    IF Len(p) = 0 THEN ""
    ELSE IF Len(p) = 1 THEN p[1]
    ELSE display(parent(p)) \o "/" \o p[Len(p)]

exists(f, p) == p \in f

subtree(f, p) == {q \in f : IsPrefix(p, q)}

ancestors(p) == {SubSeq(p, 1, n) : n \in 1..Len(p)}

is_empty_dir(f, p) == subtree(f, p) = {p}

\* fs::create_dir_all: the directory and every missing ancestor
create_dir_all(f, p) == f \cup ancestors(p)

\* fs::create_dir: the parent must exist and the path must not
can_create_dir(f, p) == parent(p) \in f /\ p \notin f

\* fs::write / fs::copy target: the parent directory must exist
can_write(f, p) == parent(p) \in f

remove_dir_all(f, p) == f \ subtree(f, p)

moved(q, from, to) == to \o SubSeq(q, Len(from) + 1, Len(q))

\* fs::rename of a directory: onto nothing, or (unix) onto an empty directory
can_rename(f, from, to) ==
    /\ from \in f
    /\ parent(to) \in f
    /\ to \in f => (platform # "windows" /\ is_empty_dir(f, to))

rename(f, from, to) ==
    (f \ subtree(f, from)) \cup {moved(q, from, to) : q \in subtree(f, from)}

----------------------------------------------------------------------------
\* Names the script computes

\* const PROTOBUF_TAG
PROTOBUF_TAG(v) == "v" \o v

\* main: out_dir.join(format!("protobuf-{PROTOBUF_VERSION}"))
protobuf_dir_of(out, v) == join(out, "protobuf-" \o v)

\* a scratch directory whose name leaves the version out
build_dir_of_unversioned(out, v) == join(out, "build-protobuf")

\* build_protobuf: out_dir.join(format!("build-protobuf-{PROTOBUF_VERSION}"))
build_dir_of(out, v) == join(out, "build-protobuf-" \o v)

out_dir(r) == env[r].OUT_DIR
protobuf_dir(r) == protobuf_dir_of(out_dir(r), ver[r])
build_dir(r) == build_dir_of(out_dir(r), ver[r])

\* a build installed straight into the persistent directory, without staging
prefix_dir_unstaged(r) == protobuf_dir(r)

prefix_dir(r) == join(tempdir[r], "prefix")

\* tempfile::Builder::new().prefix("protobuf"): "protobuf" + random characters
tempdir_name(s) == "protobuf" \o s

\* a descriptor that builds the conformance runner on every platform
build_conformance_always_on == "ON"

\* write_cmake_file: build_conformance
build_conformance == IF platform = "windows" THEN "OFF" ELSE "ON"

\* build_with_cmake: the probed path of the conformance test runner
conformance_runner(r) ==
    join(join(join(join(build_dir(r), "build"), "_deps"), "protobuf-build"),
         "conformance_test_runner")

\* compile_proto_files: protoc_name
protoc_name == IF platform = "windows" THEN "protoc.exe" ELSE "protoc"

\* a check of the executable's directory instead of the executable
protoc_executable_bin_only(r) == join(protobuf_dir(r), "bin")

protoc_executable(r) == join(join(protobuf_dir(r), "bin"), protoc_name)

\* a source-tree check that looks at the scratch directory only
protobuf_src_scratch_only(r) == build_dir(r)

\* compile_proto_files: protobuf_src, conformance_dir, proto_dir
protobuf_src(r) ==
    join(join(join(build_dir(r), "build"), "_deps"), "protobuf-src")
conformance_dir(r) == join(protobuf_src(r), "conformance")
proto_dir(r) == join(protobuf_src(r), "src")

----------------------------------------------------------------------------
\* What the external build may leave behind

\* the name under which the built compiler is installed on the platform
installed_protoc == IF platform = "windows" THEN "protoc.exe" ELSE "protoc"

\* what `cmake --install` may put under the install prefix
InstallSets(prefix) ==
    { {},
      {join(prefix, "bin")},
      {join(prefix, "bin"), join(join(prefix, "bin"), installed_protoc),
       join(prefix, "lib")} }

\* what FetchContent may leave under <build_dir>/build/_deps
FetchSets(bd) ==
    LET deps == join(join(bd, "build"), "_deps")
        src  == join(deps, "protobuf-src")
    IN { {},
         {src, join(src, "src")},
         {src, join(src, "src"), join(src, "conformance")} }

\* the test runner is a target of the build only when the descriptor says ON
RunnerSets(bd, descriptor) ==
    LET deps == join(join(bd, "build"), "_deps")
    IN  { {} } \cup
        IF descriptor.conformance = "ON"
        THEN { {join(join(deps, "protobuf-build"), "conformance_test_runner")} }
        ELSE { }

closed(S) == UNION {ancestors(q) : q \in S}

----------------------------------------------------------------------------
\* The descriptor's APPLE workaround, as cmake processes it

Undefined == "<undefined>"

\* a string as cmake sees it: its characters
Chars_O2 == <<"-", "O", "2">>
Chars_target == <<"-", "-", "t", "a", "r", "g", "e", "t">>
Chars_single_dash == <<"-", "t", "a", "r", "g", "e", "t">>

\* values of APPLE as a normal variable and as a cache entry, of
\* CMAKE_OSX_ARCHITECTURES and of CMAKE_C_FLAGS when the descriptor is read
AppleNormalValues == {Undefined, "1"}
AppleCacheValues == {Undefined, "1", "FALSE"}
OsxArchitectures == {"", "arm64", "x86_64", "arm64;x86_64"}
CFlags ==
    { << >>, Chars_O2, Chars_target, Chars_single_dash,
      Chars_O2 \o <<" ">> \o Chars_target \o <<"=", "a">> }

\* cmake's if(<variable>): the true constants
is_true(v) == v \in {"1", "ON", "YES", "TRUE", "Y"}

\* ${APPLE}: the normal variable hides the cache entry
apple_value(c) ==
    IF c.normal # Undefined THEN c.normal
    ELSE IF c.cache # Undefined THEN c.cache
    ELSE ""

\* string(FIND <string> <substring> <out>): the first index from 0, or -1
string_find(s, sub) ==
    LET hits == {i \in 1..(Len(s) - Len(sub) + 1) :
                    SubSeq(s, i, i + Len(sub) - 1) = sub}
    IN  IF hits = {} THEN -1
        ELSE (CHOOSE i \in hits : \A j \in hits : i <= j) - 1

\* a test of NIX_DETECTED as a condition, as in if(NIX_DETECTED)
nix_detected_as_condition(found) == found # 0

\* if(NOT NIX_DETECTED EQUAL -1)
nix_detected(found) == found # -1

CMakeIdle ==
    [pc |-> "idle", normal |-> Undefined, cache |-> Undefined, arch |-> "",
     flags |-> << >>, saved |-> Undefined, apple0 |-> "", forced |-> FALSE,
     writes |-> 0]

\* set(APPLE <value> CACHE BOOL "" FORCE): with the policies of
\* cmake_minimum_required(VERSION 3.14) the normal variable is removed
set_cache_force(c, value) ==
    [c EXCEPT !.cache = value, !.normal = Undefined, !.writes = @ + 1]

\* if(APPLE AND CMAKE_OSX_ARCHITECTURES STREQUAL "arm64") ... endif()
CMakeWorkaround ==
    /\ cmake.pc = "configure"
    /\ cmake' =
         IF /\ is_true(apple_value(cmake))
            /\ cmake.arch = "arm64"
            /\ nix_detected(string_find(cmake.flags, Chars_target))
         THEN [set_cache_force([cmake EXCEPT !.saved = apple_value(cmake)],
                               "FALSE")
                 EXCEPT !.pc = "fetch", !.forced = TRUE]
         ELSE [cmake EXCEPT !.pc = "fetch"]
    /\ UNCHANGED <<platform, fs, content, pc, ver, env, tempdir, log, err,
                   emitted, runs, nBuildOk>>

\* FetchContent_MakeAvailable(protobuf): it returns, or it ends cmake
CMakeFetch ==
    /\ cmake.pc = "fetch"
    /\ \E next \in {"restore", "aborted"} :
          cmake' = [cmake EXCEPT !.pc = next]
    /\ UNCHANGED <<platform, fs, content, pc, ver, env, tempdir, log, err,
                   emitted, runs, nBuildOk>>

\* if(_SAVED_APPLE) set(APPLE "${_SAVED_APPLE}" CACHE BOOL "" FORCE) endif()
CMakeRestore ==
    /\ cmake.pc = "restore"
    /\ cmake' =
         IF cmake.saved # Undefined /\ is_true(cmake.saved)
         THEN [set_cache_force(cmake, cmake.saved) EXCEPT !.pc = "done"]
         ELSE [cmake EXCEPT !.pc = "done"]
    /\ UNCHANGED <<platform, fs, content, pc, ver, env, tempdir, log, err,
                   emitted, runs, nBuildOk>>

----------------------------------------------------------------------------
Init ==
    /\ platform \in Platforms
    /\ fs = {<<"out">>}
    /\ content = << >>
    /\ pc = [r \in Procs |-> "idle"]
    /\ ver = [r \in Procs |-> "25.8"]
    /\ env = [r \in Procs |-> [OUT_DIR |-> NoPath, DYLD_LIBRARY_PATH |-> ""]]
    /\ tempdir = [r \in Procs |-> NoPath]
    /\ log = [r \in Procs |-> << >>]
    /\ err = [r \in Procs |-> ""]
    /\ emitted = [r \in Procs |-> ""]
    /\ runs = 0
    /\ nBuildOk = [v \in Versions |-> 0]
    /\ cmake = CMakeIdle

Ended(r) == pc[r] \in {"idle", "done", "failed"}

\* A step of run r that performed `ops` and goes on to `next`
Goto(r, next, ops) ==
    /\ pc' = [pc EXCEPT ![r] = next]
    /\ log' = [log EXCEPT ![r] = @ \o ops]
    /\ err' = err

\* an error that sends the run back to the start of main instead of ending it
Fail_retries(r, ops, msg) ==
    /\ pc' = [pc EXCEPT ![r] = "main"]
    /\ log' = [log EXCEPT ![r] = @ \o ops]
    /\ err' = [err EXCEPT ![r] = msg]

\* A step of run r that performed `ops` and failed: the error propagates
\* out of main and the process exits
Fail(r, ops, msg) ==
    /\ pc' = [pc EXCEPT ![r] = "failed"]
    /\ log' = [log EXCEPT ![r] = @ \o ops]
    /\ err' = [err EXCEPT ![r] = msg]

\* a TempDir that is kept (into_path) instead of dropped
drop_tempdir_kept(f, r) == f

\* Dropping the TempDir removes the staging directory
drop_tempdir(f, r) == remove_dir_all(f, tempdir[r])

----------------------------------------------------------------------------
\* A run of the script starts: a process with its pin and its environment

StartRun(r) ==
    /\ Ended(r)
    /\ runs < MaxRuns
    /\ runs' = runs + 1
    /\ pc' = [pc EXCEPT ![r] = "main"]
    /\ \E v \in Versions : ver' = [ver EXCEPT ![r] = v]
    /\ \E o \in OutDirs, d \in DyldValues :
           env' = [env EXCEPT ![r] = [OUT_DIR |-> o, DYLD_LIBRARY_PATH |-> d]]
    /\ tempdir' = [tempdir EXCEPT ![r] = NoPath]
    /\ log' = [log EXCEPT ![r] = << >>]
    /\ err' = [err EXCEPT ![r] = ""]
    /\ emitted' = [emitted EXCEPT ![r] = ""]
    /\ UNCHANGED <<cmake, platform, fs, content, nBuildOk>>

\* a main without the cache check: it builds in every run
Main_always_builds(r) ==
    /\ pc[r] = "main"
    /\ IF out_dir(r) = NoPath
       THEN Fail(r, << >>, "OUT_DIR not set")
       ELSE Goto(r, "create_build_dir", <<"build_protobuf">>)
    /\ UNCHANGED <<cmake, platform, fs, content, ver, env, tempdir, emitted, runs,
                   nBuildOk>>

\* main: OUT_DIR and the cache check
Main(r) ==
    /\ pc[r] = "main"
    /\ IF out_dir(r) = NoPath
       THEN Fail(r, << >>, "OUT_DIR not set")
       ELSE IF ~exists(fs, protobuf_dir(r))
            THEN Goto(r, "create_build_dir", <<"cache_check", "build_protobuf">>)
            ELSE Goto(r, "check_protoc", <<"cache_check">>)
    /\ UNCHANGED <<cmake, platform, fs, content, ver, env, tempdir, emitted, runs,
                   nBuildOk>>

----------------------------------------------------------------------------
\* build_protobuf

CreateBuildDir(r) ==
    /\ pc[r] = "create_build_dir"
    /\ \/ /\ fs' = create_dir_all(fs, build_dir(r))
          /\ Goto(r, "tempdir", <<"create_build_dir">>)
       \/ /\ fs' = fs
          /\ Fail(r, <<"create_build_dir">>, "failed to create build directory")
    /\ UNCHANGED <<cmake, platform, content, ver, env, tempdir, emitted, runs,
                   nBuildOk>>

\* a staging directory with a fixed name, shared by the runs
CreateTempdir_fixed_name(r) ==
    /\ pc[r] = "tempdir"
    /\ LET t == join(out_dir(r), tempdir_name("")) IN
       /\ fs' = fs \cup {t}
       /\ tempdir' = [tempdir EXCEPT ![r] = t]
       /\ Goto(r, "create_prefix", <<"tempdir">>)
    /\ UNCHANGED <<cmake, platform, content, ver, env, emitted, runs, nBuildOk>>

CreateTempdir(r) ==
    /\ pc[r] = "tempdir"
    /\ \/ \E s \in RandSuffixes :
             LET t == join(out_dir(r), tempdir_name(s)) IN
             /\ ~exists(fs, t)
             /\ fs' = fs \cup {t}
             /\ tempdir' = [tempdir EXCEPT ![r] = t]
             /\ Goto(r, "create_prefix", <<"tempdir">>)
       \/ /\ UNCHANGED <<fs, tempdir>>
          /\ Fail(r, <<"tempdir">>, "failed to create temporary directory")
    /\ UNCHANGED <<cmake, platform, content, ver, env, emitted, runs, nBuildOk>>

CreatePrefix(r) ==
    /\ pc[r] = "create_prefix"
    /\ \/ /\ can_create_dir(fs, prefix_dir(r))
          /\ fs' = fs \cup {prefix_dir(r)}
          /\ tempdir' = tempdir
          /\ Goto(r, "write_cmake", <<"create_prefix">>)
       \/ /\ fs' = drop_tempdir(fs, r)
          /\ tempdir' = [tempdir EXCEPT ![r] = NoPath]
          /\ Fail(r, <<"create_prefix">>, "failed to create prefix directory")
    /\ UNCHANGED <<cmake, platform, content, ver, env, emitted, runs, nBuildOk>>

\* write_cmake_file
descriptor_text(r) ==
    [tag |-> PROTOBUF_TAG(ver[r]), conformance |-> build_conformance]

\* a descriptor that is written only when none is there yet
WriteCmakeFile_if_absent(r) ==
    /\ pc[r] = "write_cmake"
    /\ LET file == join(build_dir(r), "CMakeLists.txt") IN
       IF exists(fs, file)
       THEN /\ UNCHANGED <<fs, content, tempdir>>
            /\ Goto(r, "cmake_build", << >>)
       ELSE \/ /\ can_write(fs, file)
               /\ fs' = fs \cup {file}
               /\ content' = (file :> descriptor_text(r)) @@ content
               /\ tempdir' = tempdir
               /\ Goto(r, "cmake_build", <<"write_cmake">>)
            \/ /\ fs' = drop_tempdir(fs, r)
               /\ content' = content
               /\ tempdir' = [tempdir EXCEPT ![r] = NoPath]
               /\ Fail(r, <<"write_cmake">>, "failed to write CMakeLists.txt")
    /\ UNCHANGED <<cmake, platform, ver, env, emitted, runs, nBuildOk>>

WriteCmakeFile(r) ==
    /\ pc[r] = "write_cmake"
    /\ LET file == join(build_dir(r), "CMakeLists.txt") IN
       \/ /\ can_write(fs, file)
          /\ fs' = fs \cup {file}
          /\ content' = (file :> descriptor_text(r)) @@ content
          /\ tempdir' = tempdir
          /\ Goto(r, "cmake_build", <<"write_cmake">>)
       \/ /\ fs' = drop_tempdir(fs, r)
          /\ content' = content
          /\ tempdir' = [tempdir EXCEPT ![r] = NoPath]
          /\ Fail(r, <<"write_cmake">>, "failed to write CMakeLists.txt")
    /\ UNCHANGED <<cmake, platform, ver, env, emitted, runs, nBuildOk>>

\* build_with_cmake: config.build(), which panics when cmake fails
CmakeBuild(r) ==
    /\ pc[r] = "cmake_build"
    /\ LET file == join(build_dir(r), "CMakeLists.txt") IN
       \E fetched \in FetchSets(build_dir(r)) :
       \E runner \in (IF file \in DOMAIN content
                      THEN RunnerSets(build_dir(r), content[file])
                      ELSE { {} }) :
          \/ \E inst \in InstallSets(prefix_dir(r)) :
                /\ file \in DOMAIN content
                /\ exists(fs, prefix_dir(r))
                /\ fs' = fs \cup closed(fetched \cup runner) \cup inst
                /\ nBuildOk' = [nBuildOk EXCEPT ![ver[r]] = @ + 1]
                /\ tempdir' = tempdir
                /\ Goto(r, "copy_runner", <<"cmake_build">>)
          \/ /\ fs' = drop_tempdir(fs \cup closed(fetched \cup runner), r)
             /\ nBuildOk' = nBuildOk
             /\ tempdir' = [tempdir EXCEPT ![r] = NoPath]
             /\ Fail(r, <<"cmake_build">>, "cmake build failed")
    /\ UNCHANGED <<cmake, platform, content, ver, env, emitted, runs>>

\* a harvest that moves the test runner out of the scratch directory
CopyRunner_moves(r) ==
    /\ pc[r] = "copy_runner"
    /\ LET target == join(join(prefix_dir(r), "bin"), "conformance-test-runner") IN
       IF platform # "windows" /\ exists(fs, conformance_runner(r))
       THEN \/ /\ can_write(fs, target)
               /\ fs' = (fs \ {conformance_runner(r)}) \cup {target}
               /\ tempdir' = tempdir
               /\ Goto(r, "rename", <<"probe_runner", "copy_runner">>)
            \/ /\ fs' = drop_tempdir(fs, r)
               /\ tempdir' = [tempdir EXCEPT ![r] = NoPath]
               /\ Fail(r, <<"probe_runner", "copy_runner">>,
                       "failed to copy conformance-test-runner")
       ELSE /\ UNCHANGED <<fs, tempdir>>
            /\ Goto(r, "rename",
                    IF platform # "windows" THEN <<"probe_runner">> ELSE << >>)
    /\ UNCHANGED <<cmake, platform, content, ver, env, emitted, runs, nBuildOk>>

\* build_with_cmake: the copy of the conformance test runner
CopyRunner(r) ==
    /\ pc[r] = "copy_runner"
    /\ LET target == join(join(prefix_dir(r), "bin"), "conformance-test-runner") IN
       IF platform # "windows"
       THEN IF exists(fs, conformance_runner(r))
            THEN \/ /\ can_write(fs, target)
                    /\ fs' = fs \cup {target}
                    /\ tempdir' = tempdir
                    /\ Goto(r, "rename", <<"probe_runner", "copy_runner">>)
                 \/ /\ fs' = drop_tempdir(fs, r)
                    /\ tempdir' = [tempdir EXCEPT ![r] = NoPath]
                    /\ Fail(r, <<"probe_runner", "copy_runner">>,
                            "failed to copy conformance-test-runner")
            ELSE /\ UNCHANGED <<fs, tempdir>>
                 /\ Goto(r, "rename", <<"probe_runner">>)
       ELSE /\ UNCHANGED <<fs, tempdir>>
            /\ Goto(r, "rename", << >>)
    /\ UNCHANGED <<cmake, platform, content, ver, env, emitted, runs, nBuildOk>>

\* build_protobuf: the rename that publishes, then the TempDir goes out of scope
RenamePrefix(r) ==
    /\ pc[r] = "rename"
    /\ \/ /\ can_rename(fs, prefix_dir(r), protobuf_dir(r))
          /\ fs' = drop_tempdir(rename(fs, prefix_dir(r), protobuf_dir(r)), r)
          /\ Goto(r, "check_protoc", <<"rename">>)
       \/ /\ fs' = drop_tempdir(fs, r)
          /\ Fail(r, <<"rename">>, "failed to move protobuf dir")
    /\ tempdir' = [tempdir EXCEPT ![r] = NoPath]
    /\ UNCHANGED <<cmake, platform, content, ver, env, emitted, runs, nBuildOk>>

----------------------------------------------------------------------------
\* compile_proto_files

\* the files a compilation pass generates under OUT_DIR
generated(r, pass) == join(out_dir(r), pass \o ".rs")

CheckProtoc(r) ==
    /\ pc[r] = "check_protoc"
    /\ IF ~exists(fs, protoc_executable(r))
       THEN Fail(r, <<"check_protoc">>, "protoc not found")
       ELSE Goto(r, "set_dyld", <<"check_protoc">>)
    /\ UNCHANGED <<cmake, platform, fs, content, ver, env, tempdir, emitted, runs,
                   nBuildOk>>

\* env::var(..).unwrap_or_default(): the value when it is set and valid
\* Unicode, the empty string otherwise
env_var_or_default(value) == IF value \in NotUnicode THEN "" ELSE value

\* the new value of DYLD_LIBRARY_PATH
new_path(r) ==
    LET lib_dir == join(protobuf_dir(r), "lib")
        current == env_var_or_default(env[r].DYLD_LIBRARY_PATH)
    IN  IF current = "" THEN display(lib_dir)
        ELSE display(lib_dir) \o ":" \o current

SetDyld(r) ==
    /\ pc[r] = "set_dyld"
    /\ IF platform = "macos"
       THEN /\ env' = [env EXCEPT ![r].DYLD_LIBRARY_PATH = new_path(r)]
            /\ Goto(r, "check_src", <<"set_dyld">>)
       ELSE /\ env' = env
            /\ Goto(r, "check_src", << >>)
    /\ UNCHANGED <<cmake, platform, fs, content, ver, tempdir, emitted, runs,
                   nBuildOk>>

CheckSrc(r) ==
    /\ pc[r] = "check_src"
    /\ IF ~exists(fs, protobuf_src(r))
       THEN Fail(r, <<"check_src">>, "Protobuf source not found")
       ELSE Goto(r, "conformance", <<"check_src">>)
    /\ UNCHANGED <<cmake, platform, fs, content, ver, env, tempdir, emitted, runs,
                   nBuildOk>>

\* a conformance pass attempted whether or not its directory exists
ConformancePass_unconditional(r) ==
    /\ pc[r] = "conformance"
    /\ \/ /\ fs' = fs \cup {generated(r, "conformance")}
          /\ Goto(r, "test_protos", <<"compile_conformance", "pass_ok">>)
       \/ /\ fs' = fs
          /\ Fail(r, <<"compile_conformance", "pass_failed">>,
                  "failed to compile conformance.proto")
    /\ UNCHANGED <<cmake, platform, content, ver, env, tempdir, emitted, runs,
                   nBuildOk>>

\* a conformance pass whose failure is dropped instead of propagated
ConformancePass_swallows_error(r) ==
    /\ pc[r] = "conformance"
    /\ IF exists(fs, conformance_dir(r))
       THEN \/ /\ fs' = fs \cup {generated(r, "conformance")}
               /\ Goto(r, "test_protos", <<"compile_conformance", "pass_ok">>)
            \/ /\ fs' = fs
               /\ Goto(r, "test_protos", <<"compile_conformance", "pass_failed">>)
       ELSE /\ fs' = fs
            /\ Goto(r, "test_protos", << >>)
    /\ UNCHANGED <<cmake, platform, content, ver, env, tempdir, emitted, runs,
                   nBuildOk>>

\* the pass over conformance.proto, when its directory exists; the log keeps
\* the invocation of protoc and what protoc answered
ConformancePass(r) ==
    /\ pc[r] = "conformance"
    /\ IF exists(fs, conformance_dir(r))
       THEN \/ /\ fs' = fs \cup {generated(r, "conformance")}
               /\ Goto(r, "test_protos", <<"compile_conformance", "pass_ok">>)
            \/ /\ fs' = fs
               /\ Fail(r, <<"compile_conformance", "pass_failed">>,
                       "failed to compile conformance.proto")
       ELSE /\ fs' = fs
            /\ Goto(r, "test_protos", << >>)
    /\ UNCHANGED <<cmake, platform, content, ver, env, tempdir, emitted, runs,
                   nBuildOk>>

\* a mandatory pass whose failure is dropped instead of propagated
TestProtosPass_swallows_error(r) ==
    /\ pc[r] = "test_protos"
    /\ \/ /\ fs' = fs \cup {generated(r, "protobuf_test_messages")}
          /\ Goto(r, "emit", <<"compile_test_protos", "pass_ok">>)
       \/ /\ fs' = fs
          /\ Goto(r, "emit", <<"compile_test_protos", "pass_failed">>)
    /\ UNCHANGED <<cmake, platform, content, ver, env, tempdir, emitted, runs,
                   nBuildOk>>

\* the pass over the three test-message schema files
TestProtosPass(r) ==
    /\ pc[r] = "test_protos"
    /\ \/ /\ fs' = fs \cup {generated(r, "protobuf_test_messages")}
          /\ Goto(r, "emit", <<"compile_test_protos", "pass_ok">>)
       \/ /\ fs' = fs
          /\ Fail(r, <<"compile_test_protos", "pass_failed">>,
                  "failed to compile test protos")
    /\ UNCHANGED <<cmake, platform, content, ver, env, tempdir, emitted, runs,
                   nBuildOk>>

\* main: println!("cargo:rustc-env=PROTOBUF={}", protobuf_dir.display())
Emit(r) ==
    /\ pc[r] = "emit"
    /\ emitted' = [emitted EXCEPT ![r] = display(protobuf_dir(r))]
    /\ Goto(r, "done", <<"emit">>)
    /\ UNCHANGED <<cmake, platform, fs, content, ver, env, tempdir, runs, nBuildOk>>

----------------------------------------------------------------------------
Step(r) ==
    \/ StartRun(r)
    \/ Main(r)
    \/ CreateBuildDir(r)
    \/ CreateTempdir(r)
    \/ CreatePrefix(r)
    \/ WriteCmakeFile(r)
    \/ CmakeBuild(r)
    \/ CopyRunner(r)
    \/ RenamePrefix(r)
    \/ CheckProtoc(r)
    \/ SetDyld(r)
    \/ CheckSrc(r)
    \/ ConformancePass(r)
    \/ TestProtosPass(r)
    \/ Emit(r)

\* Runs of the script one after another
Next == Step(SeqProc)

Spec == Init /\ [][Next]_vars

\* Two runs of the script for the same version and the same OUT_DIR, their
\* steps interleaved
StartConcurrent(r) ==
    /\ pc[r] = "idle"
    /\ runs' = runs + 1
    /\ pc' = [pc EXCEPT ![r] = "main"]
    /\ env' = [env EXCEPT ![r] = [OUT_DIR |-> <<"out">>,
                                  DYLD_LIBRARY_PATH |-> ""]]
    /\ UNCHANGED <<cmake, platform, fs, content, ver, tempdir, log, err,
                   emitted, nBuildOk>>

NextConcurrent ==
    \E r \in Procs :
        \/ StartConcurrent(r)
        \/ Main(r)
        \/ CreateBuildDir(r)
        \/ CreateTempdir(r)
        \/ CreatePrefix(r)
        \/ WriteCmakeFile(r)
        \/ CmakeBuild(r)
        \/ CopyRunner(r)
        \/ RenamePrefix(r)
        \/ CheckProtoc(r)
        \/ SetDyld(r)
        \/ CheckSrc(r)
        \/ ConformancePass(r)
        \/ TestProtosPass(r)
        \/ Emit(r)

SpecConcurrent == Init /\ [][NextConcurrent]_vars

\* cmake reading the descriptor, from every state of its variables
InitCMake ==
    /\ platform \in Platforms
    /\ fs = {<<"out">>}
    /\ content = << >>
    /\ pc = [r \in Procs |-> "idle"]
    /\ ver = [r \in Procs |-> "25.8"]
    /\ env = [r \in Procs |-> [OUT_DIR |-> NoPath, DYLD_LIBRARY_PATH |-> ""]]
    /\ tempdir = [r \in Procs |-> NoPath]
    /\ log = [r \in Procs |-> << >>]
    /\ err = [r \in Procs |-> ""]
    /\ emitted = [r \in Procs |-> ""]
    /\ runs = 0
    /\ nBuildOk = [v \in Versions |-> 0]
    /\ \E n \in AppleNormalValues, c \in AppleCacheValues,
          a \in OsxArchitectures, f \in CFlags :
          cmake = [pc |-> "configure", normal |-> n, cache |-> c, arch |-> a,
                   flags |-> f, saved |-> Undefined,
                   apple0 |-> apple_value([normal |-> n, cache |-> c]),
                   forced |-> FALSE, writes |-> 0]

NextCMake ==
    \/ CMakeWorkaround
    \/ CMakeFetch
    \/ CMakeRestore

SpecCMake == InitCMake /\ [][NextCMake]_vars

----------------------------------------------------------------------------
\* Properties of sequential runs

p == SeqProc
q_run == "q"

InLog(r, op) == \E i \in DOMAIN log[r] : log[r][i] = op

RunEnded(r) == pc[r] \in {"done", "failed"}

\* the errors that come out of build_protobuf
BuildErrors ==
    { "failed to create build directory",
      "failed to create temporary directory",
      "failed to create prefix directory",
      "failed to write CMakeLists.txt",
      "cmake build failed",
      "failed to copy conformance-test-runner",
      "failed to move protobuf dir" }

\* C1 (atomicity of publication): a run that found no persistent artifact
\* directory and failed in any step of build_protobuf ends with the
\* persistent artifact directory still absent.
C1_Atomicity ==
    (pc[p] = "failed" /\ err[p] \in BuildErrors)
        => /\ InLog(p, "build_protobuf")
           /\ ~exists(fs, <<"out", "protobuf-" \o ver[p]>>)

\* a run whose external build returned normally failed at the rename
C1_Witness ==
    /\ pc[p] = "failed"
    /\ err[p] = "failed to move protobuf dir"
    /\ InLog(p, "cmake_build")
    /\ ~exists(fs, <<"out", "protobuf-" \o ver[p]>>)

\* C2 (cache invariant at the end of every run): when a run has ended, the
\* persistent artifact directory is absent or holds bin/<protoc name>.
C2_CacheInvariant ==
    (RunEnded(p) /\ out_dir(p) # NoPath)
        => \/ ~exists(fs, protobuf_dir(p))
           \/ exists(fs, join(join(protobuf_dir(p), "bin"), installed_protoc))

\* C3 as stated (idempotence): after publication every later run skips the
\* build and reports the same path, and over all runs of a version the
\* external build returns normally at most once.
PublishedHere(r) ==
    InLog(r, "rename") /\ err[r] # "failed to move protobuf dir"

C3_SkipsAfterPublication ==
    /\ (pc[p] \notin {"idle", "main"} /\ exists(fs, protobuf_dir(p))
            /\ ~PublishedHere(p))
          => (~InLog(p, "build_protobuf") /\ ~InLog(p, "cmake_build"))
    /\ pc[p] = "done" => emitted[p] = "out/protobuf-" \o ver[p]

C3_Original ==
    /\ C3_SkipsAfterPublication
    /\ \A v \in Versions : nBuildOk[v] <= 1

\* C3 as amended: after publication every later run skips the build and
\* reports the same path; once the directory of a version is published it
\* stays, no external build of that version is invoked again, and so at
\* most one build is ever published (a build that returned normally but
\* whose copy or rename failed publishes nothing and is repeated).
C3_Idempotence ==
    [][ /\ C3_SkipsAfterPublication'
        /\ \A v \in Versions :
              exists(fs, protobuf_dir_of(<<"out">>, v))
                => /\ subtree(fs', protobuf_dir_of(<<"out">>, v))
                        = subtree(fs, protobuf_dir_of(<<"out">>, v))
                   /\ nBuildOk'[v] = nBuildOk[v]
                   /\ (ver[p] = v /\ ~Ended(p))
                        => log'[p] # Append(log[p], "cmake_build")
                   /\ (ver[p] = v /\ pc[p] = "main" /\ out_dir(p) # NoPath)
                        => pc'[p] = "check_protoc" ]_vars

\* a run that found the directory published by an earlier run and finished
C3_Witness ==
    /\ pc[p] = "done"
    /\ ~InLog(p, "build_protobuf")
    /\ nBuildOk[ver[p]] >= 1
    /\ emitted[p] = "out/protobuf-" \o ver[p]

\* the paths the later stages look at, spelled out
ToolchainPath(r) ==
    <<"out", "protobuf-" \o ver[r], "bin",
      IF platform = "windows" THEN "protoc.exe" ELSE "protoc">>
SrcPath(r) ==
    <<"out", "build-protobuf-" \o ver[r], "build", "_deps", "protobuf-src">>
ConfPath(r) == SrcPath(r) \o <<"conformance">>

\* C4 (toolchain-missing detection): a run that reached code generation
\* with bin/protoc (bin/protoc.exe on Windows) absent, after a build or on
\* a cache hit, fails with the toolchain-not-found error, having looked for
\* no source tree, changed no DYLD_LIBRARY_PATH, invoked no pass and
\* emitted no PROTOBUF value.
C4_ToolchainMissing ==
    (InLog(p, "check_protoc") /\ ~exists(fs, ToolchainPath(p)))
        => /\ pc[p] = "failed"
           /\ err[p] = "protoc not found"
           /\ ~InLog(p, "set_dyld")
           /\ env[p].DYLD_LIBRARY_PATH \in DyldValues
           /\ ~InLog(p, "check_src")
           /\ ~InLog(p, "compile_conformance")
           /\ ~InLog(p, "compile_test_protos")
           /\ ~InLog(p, "emit")
           /\ emitted[p] = ""

\* a cache hit on a directory without the executable
C4_Witness ==
    /\ pc[p] = "failed"
    /\ err[p] = "protoc not found"
    /\ ~InLog(p, "build_protobuf")
    /\ exists(fs, <<"out", "protobuf-" \o ver[p]>>)
    /\ ~exists(fs, ToolchainPath(p))

BuildStages ==
    {"create_build_dir", "tempdir", "create_prefix", "write_cmake",
     "cmake_build", "copy_runner", "rename"}

StagingPaths(f) ==
    {q \in f : Len(q) >= 2 /\ q[2] \in {"protobuf" \o s : s \in RandSuffixes}}

\* C5 (staging cleanup): once a run has left build_protobuf, by success or
\* by the failure of any step, no staging directory exists under the output
\* root; after a success the persistent artifact directory exists and
\* holds what the run had put under the prefix.
C5_StagingCleanup ==
    (InLog(p, "build_protobuf") /\ pc[p] \notin BuildStages)
        => /\ StagingPaths(fs) = {}
           /\ tempdir[p] = NoPath
           /\ PublishedHere(p) => exists(fs, <<"out", "protobuf-" \o ver[p]>>)
           /\ (PublishedHere(p) /\ InLog(p, "copy_runner"))
                 => exists(fs, <<"out", "protobuf-" \o ver[p], "bin",
                                 "conformance-test-runner">>)

\* a run that failed at the copy, after the build had filled the prefix
C5_Witness ==
    /\ pc[p] = "failed"
    /\ err[p] = "failed to copy conformance-test-runner"
    /\ StagingPaths(fs) = {}

\* a run that found the persistent artifact directory at its cache check
HitRun ==
    /\ ~Ended(p)
    /\ pc[p] = "main" => exists(fs, protobuf_dir(p))
    /\ ~InLog(p, "build_protobuf")

GeneratedNames == {"conformance.rs", "protobuf_test_messages.rs"}

\* C6 (cache hit is a short-circuit on existence): every step of a run that
\* found the persistent artifact directory, whatever is in it, stays out of
\* build_protobuf, leaves the persistent directory, the scratch directory
\* and every descriptor as they are, creates no staging directory and
\* invokes no external build; all it adds is generated code under OUT_DIR.
C6_CacheHitFrame ==
    [][ HitRun =>
          /\ pc'[p] \notin BuildStages
          /\ ~InLog(p, "build_protobuf")'
          /\ fs \subseteq fs'
          /\ \A q \in fs' \ fs : Len(q) = 2 /\ q[2] \in GeneratedNames
          /\ content' = content
          /\ tempdir' = tempdir
          /\ nBuildOk' = nBuildOk ]_vars

\* a cache hit on an empty persistent directory, taken as it is
C6_Witness ==
    /\ RunEnded(p)
    /\ ~InLog(p, "build_protobuf")
    /\ InLog(p, "check_protoc")
    /\ is_empty_dir(fs, <<"out", "protobuf-" \o ver[p]>>)

\* C7 (namespace isolation): for two distinct versions the persistent and
\* the scratch directories are four different paths, and no step of a run
\* for one version creates, changes, renames onto or removes anything at or
\* under the persistent or the scratch directory of the other, nor rewrites
\* its descriptor.
C7_NamespaceIsolation ==
    [][ \A a, b \in Versions : a # b =>
          LET pa == protobuf_dir_of(<<"out">>, a)
              pb == protobuf_dir_of(<<"out">>, b)
              ba == build_dir_of(<<"out">>, a)
              bb == build_dir_of(<<"out">>, b)
          IN  /\ Cardinality({pa, pb, ba, bb}) = 4
              /\ (ver[p] = a /\ ~Ended(p) /\ (fs' # fs \/ content' # content))
                    => /\ subtree(fs', pb) = subtree(fs, pb)
                       /\ subtree(fs', bb) = subtree(fs, bb)
                       /\ \A q \in (DOMAIN content) \cup (DOMAIN content') :
                             IsPrefix(bb, q)
                               => /\ q \in (DOMAIN content) \cap (DOMAIN content')
                                  /\ content'[q] = content[q]
      ]_vars

\* a run for one version built and finished beside the published tree and
\* the scratch tree of the other
C7_Witness ==
    \E b \in Versions :
        /\ b # ver[p]
        /\ pc[p] = "done"
        /\ InLog(p, "rename")
        /\ exists(fs, protobuf_dir_of(<<"out">>, b))
        /\ exists(fs, join(build_dir_of(<<"out">>, b), "CMakeLists.txt"))

\* a run that is past the source-tree check, which found the tree
PastSrcCheck(r) == InLog(r, "check_src") /\ exists(fs, SrcPath(r))

\* C8 (optional-schema tolerance): with the toolchain and the source tree
\* present and no conformance directory, the conformance pass is never
\* invoked and raises nothing, the mandatory pass is invoked, and the run
\* goes on to succeed exactly when the mandatory pass succeeded.
C8_OptionalSchema ==
    (PastSrcCheck(p) /\ ~exists(fs, ConfPath(p)))
        => /\ ~InLog(p, "compile_conformance")
           /\ err[p] # "failed to compile conformance.proto"
           /\ pc[p] \in {"conformance", "test_protos", "emit", "done", "failed"}
           /\ pc[p] \in {"emit", "done", "failed"}
                 => InLog(p, "compile_test_protos")
           /\ pc[p] \in {"emit", "done"} <=> InLog(p, "pass_ok")
           /\ pc[p] = "failed" <=> InLog(p, "pass_failed")
           /\ pc[p] = "failed" => err[p] = "failed to compile test protos"

\* a run that finished without a conformance directory
C8_Witness ==
    /\ pc[p] = "done"
    /\ PastSrcCheck(p)
    /\ ~exists(fs, ConfPath(p))
    /\ InLog(p, "compile_test_protos")

\* the pass whose answer is the last entry of the log
LastPass(r) == log[r][Len(log[r]) - 1]

\* C9 (every attempted pass must succeed): with the conformance directory
\* present the conformance pass is attempted; a run reaches the emission
\* only with the mandatory pass invoked and no pass failed; a failed pass
\* ends the run at once, with that pass's own error.
C9_EveryPassRequired ==
    PastSrcCheck(p)
        => /\ (exists(fs, ConfPath(p)) /\ pc[p] # "conformance")
                 => InLog(p, "compile_conformance")
           /\ pc[p] \in {"emit", "done"}
                 => /\ InLog(p, "compile_test_protos")
                    /\ ~InLog(p, "pass_failed")
                    /\ err[p] = ""
           /\ InLog(p, "pass_failed")
                 => /\ pc[p] = "failed"
                    /\ log[p][Len(log[p])] = "pass_failed"
                    /\ LastPass(p) = "compile_conformance"
                          => /\ err[p] = "failed to compile conformance.proto"
                             /\ ~InLog(p, "compile_test_protos")
                    /\ LastPass(p) = "compile_test_protos"
                          => err[p] = "failed to compile test protos"

\* a run ended by the failure of the conformance pass
C9_Witness ==
    /\ pc[p] = "failed"
    /\ err[p] = "failed to compile conformance.proto"
    /\ exists(fs, ConfPath(p))
    /\ InLog(p, "pass_failed")
    /\ LastPass(p) = "compile_conformance"

\* C10 (source-tree-missing detection): a run that looked for
\* build-protobuf-<version>/build/_deps/protobuf-src and did not find it,
\* after a build or on a cache hit, fails with the source-tree-missing
\* error and invokes neither pass.
C10_SourceTreeMissing ==
    (InLog(p, "check_src") /\ ~exists(fs, SrcPath(p)))
        => /\ pc[p] = "failed"
           /\ err[p] = "Protobuf source not found"
           /\ ~InLog(p, "compile_conformance")
           /\ ~InLog(p, "compile_test_protos")
           /\ ~InLog(p, "emit")
           /\ emitted[p] = ""

\* a fresh build that returned normally without fetching the source tree
C10_Witness ==
    /\ pc[p] = "failed"
    /\ err[p] = "Protobuf source not found"
    /\ InLog(p, "cmake_build")
    /\ exists(fs, ToolchainPath(p))
    /\ ~exists(fs, SrcPath(p))

\* the descriptor of a run's version, spelled out
DescriptorPath(r) == <<"out", "build-protobuf-" \o ver[r], "CMakeLists.txt">>

\* the external build of the run returned normally
BuildReturned(r) ==
    /\ InLog(r, "cmake_build")
    /\ err[r] # "cmake build failed"
    /\ pc[r] # "copy_runner"

\* C11 (platform conditionality): every descriptor, of any version and
\* written in any run, sets protobuf_BUILD_CONFORMANCE to OFF on Windows
\* and to ON on every other platform; after the external build the
\* test-runner step is entered exactly when that flag is ON.
C11_PlatformConditionality ==
    /\ \A q \in DOMAIN content :
          content[q].conformance = IF platform = "windows" THEN "OFF" ELSE "ON"
    /\ BuildReturned(p)
          => (InLog(p, "probe_runner")
                <=> content[DescriptorPath(p)].conformance = "ON")
    /\ InLog(p, "copy_runner") => InLog(p, "probe_runner")

\* a Windows run that built with the flag OFF and never probed
C11_Witness ==
    /\ platform = "windows"
    /\ pc[p] = "done"
    /\ BuildReturned(p)
    /\ content[DescriptorPath(p)].conformance = "OFF"
    /\ ~InLog(p, "probe_runner")

\* C12 (retry does not resume from leftovers): when a run is about to
\* invoke the external build, its scratch directory holds nothing but the
\* descriptor the run has just written: no build output tree and no fetched
\* source tree of an earlier run is left to build on.
C12_NoLeftovers ==
    pc[p] = "cmake_build"
        => subtree(fs, <<"out", "build-protobuf-" \o ver[p]>>)
             \subseteq {<<"out", "build-protobuf-" \o ver[p]>>, DescriptorPath(p)}

\* the stages of a run, in the order main calls them
StageOrder ==
    << "cache_check", "build_protobuf", "create_build_dir", "tempdir",
       "create_prefix", "write_cmake", "cmake_build", "probe_runner",
       "copy_runner", "rename", "check_protoc", "set_dyld", "check_src",
       "compile_conformance", "compile_test_protos", "emit" >>

Rank(op) == CHOOSE i \in DOMAIN StageOrder : StageOrder[i] = op

IsStage(op) == op \notin {"pass_ok", "pass_failed"}

Stages(r) == SelectSeq(log[r], IsStage)

\* the stages a run has executed are in the fixed order, each at most once
InStageOrder(r) ==
    \A i, j \in DOMAIN Stages(r) :
        i < j => Rank(Stages(r)[i]) < Rank(Stages(r)[j])

\* C13 (fail-fast stage ordering): the stages of a run execute in the fixed
\* order, none twice; a run has an error exactly when it has ended failed;
\* and a failed run executes nothing more: the only step after it is the
\* start of another run.
C13_FailFastOrder ==
    [][ /\ InStageOrder(p)'
        /\ (err[p] # "" <=> pc[p] = "failed")'
        /\ pc[p] = "failed"
              => /\ pc'[p] = "main"
                 /\ log'[p] = << >>
                 /\ fs' = fs /\ content' = content ]_vars

\* a run that went through every stage up to the last pass and failed there
C13_Witness ==
    /\ pc[p] = "failed"
    /\ err[p] = "failed to compile test protos"
    /\ Stages(p) = << "cache_check", "build_protobuf", "create_build_dir",
                      "tempdir", "create_prefix", "write_cmake", "cmake_build",
                      "probe_runner", "copy_runner", "rename", "check_protoc",
                      "set_dyld", "check_src", "compile_conformance",
                      "compile_test_protos" >>

\* C14 (descriptor freshness): a run invokes the external build only right
\* after it has itself written CMakeLists.txt, which then carries the tag
\* of the run's pinned version; a run whose write failed invokes no build.
C14_DescriptorFreshness ==
    /\ InLog(p, "cmake_build")
          => /\ \E i \in DOMAIN log[p] :
                   /\ i > 1
                   /\ log[p][i] = "cmake_build"
                   /\ log[p][i - 1] = "write_cmake"
             /\ DescriptorPath(p) \in DOMAIN content
             /\ content[DescriptorPath(p)].tag = "v" \o ver[p]
    /\ pc[p] = "cmake_build"
          => /\ log[p][Len(log[p])] = "write_cmake"
             /\ DescriptorPath(p) \in DOMAIN content
             /\ content[DescriptorPath(p)].tag = "v" \o ver[p]
    /\ err[p] = "failed to write CMakeLists.txt" => ~InLog(p, "cmake_build")

\* a run about to build a version that an earlier run had already built
\* (and not published), with the descriptor it has just rewritten
C14_Witness ==
    /\ pc[p] = "cmake_build"
    /\ nBuildOk[ver[p]] >= 1
    /\ ~exists(fs, <<"out", "protobuf-" \o ver[p]>>)
    /\ content[DescriptorPath(p)].tag = "v" \o ver[p]

\* CMAKE_C_FLAGS contains --target
ContainsTarget(s) ==
    \E i \in 1..Len(s) :
        /\ i + 7 <= Len(s)
        /\ SubSeq(s, i, i + 7) = <<"-", "-", "t", "a", "r", "g", "e", "t">>

\* the three conditions of the workaround, on the variables as first read
WorkaroundApplies ==
    /\ cmake.apple0 \in {"1", "ON", "YES", "TRUE", "Y"}
    /\ cmake.arch = "arm64"
    /\ ContainsTarget(cmake.flags)

ProbedRunner(v) ==
    <<"out", "build-protobuf-" \o v, "build", "_deps", "protobuf-build",
      "conformance_test_runner">>

\* the test runner in the staging prefix of run r
StagedRunner(r) == tempdir[r] \o <<"prefix", "bin", "conformance-test-runner">>

\* the test runner in the published tree of v
PublishedRunner(v) ==
    <<"out", "protobuf-" \o v, "bin", "conformance-test-runner">>

\* C16 (optional test-runner harvest): on a non-Windows platform the step
\* after the external build copies the test runner into the staging prefix
\* when it exists at the probed path, and the original is still there; when
\* it does not exist the step succeeds and changes nothing; on Windows
\* neither the probe nor the copy happens. A published tree contains the
\* test runner exactly when it exists at the probed path.
C16_RunnerHarvest ==
    [][ /\ (pc[p] = "copy_runner" /\ pc'[p] # "copy_runner") =>
            IF platform = "windows"
            THEN /\ fs' = fs
                 /\ log'[p] = log[p]
                 /\ pc'[p] = "rename"
            ELSE IF ProbedRunner(ver[p]) \in fs
            THEN \/ /\ pc'[p] = "rename"
                    /\ err'[p] = ""
                    /\ fs' = fs \cup {StagedRunner(p)}
                    /\ StagedRunner(p) \notin fs
                    /\ ProbedRunner(ver[p]) \in fs'
                    /\ InLog(p, "copy_runner")'
                 \/ /\ pc'[p] = "failed"
                    /\ err'[p] = "failed to copy conformance-test-runner"
                    /\ ProbedRunner(ver[p]) \in fs'
            ELSE /\ pc'[p] = "rename"
                 /\ err'[p] = ""
                 /\ fs' = fs
                 /\ ~InLog(p, "copy_runner")'
        /\ (platform = "windows" =>
               ~InLog(p, "probe_runner") /\ ~InLog(p, "copy_runner"))'
        /\ (\A v \in Versions :
               <<"out", "protobuf-" \o v>> \in fs =>
                  (PublishedRunner(v) \in fs <=> ProbedRunner(v) \in fs))'
      ]_vars

\* a run has published a tree that holds the copied test runner, and the
\* original is still in the scratch directory
C16_Witness ==
    /\ pc[p] = "done"
    /\ InLog(p, "copy_runner")
    /\ PublishedRunner(ver[p]) \in fs
    /\ ProbedRunner(ver[p]) \in fs

\* <artifact dir>/lib of run r, as text
LibDir(r) == "out/protobuf-" \o ver[r] \o "/lib"

\* C17 (library search path extension): on macOS the step between the
\* toolchain check and the compilation passes makes DYLD_LIBRARY_PATH
\* <artifact dir>/lib when it was unset or empty, and <artifact dir>/lib,
\* ':' and the previous value otherwise; on every other platform, and in
\* every other step of the run, the variable is left unchanged.
C17_LibraryPath ==
    [][ /\ (pc[p] = "set_dyld" /\ pc'[p] # "set_dyld") =>
            /\ InLog(p, "check_protoc")
            /\ ~InLog(p, "compile_conformance")
            /\ ~InLog(p, "compile_test_protos")
            /\ env'[p].DYLD_LIBRARY_PATH =
                  IF platform # "macos" THEN env[p].DYLD_LIBRARY_PATH
                  ELSE IF env[p].DYLD_LIBRARY_PATH = "" THEN LibDir(p)
                  ELSE LibDir(p) \o ":" \o env[p].DYLD_LIBRARY_PATH
        /\ (pc[p] \notin {"set_dyld", "idle", "done", "failed"}) => env' = env
      ]_vars

\* how many times op is in the log of run r
Count(r, op) == Cardinality({i \in DOMAIN log[r] : log[r][i] = op})

\* C18 (metadata only on full success): a run emits the PROTOBUF value at
\* most once, only after the toolchain check, the source-tree check and
\* every attempted pass have succeeded; the value is the path of the
\* persistent artifact directory of the run's version, which then exists
\* and holds the toolchain executable; a failed run has emitted nothing.
C18_MetadataOnSuccess ==
    /\ Count(p, "emit") <= 1
    /\ InLog(p, "emit") <=> emitted[p] # ""
    /\ pc[p] = "failed" => emitted[p] = ""
    /\ emitted[p] # "" =>
          /\ pc[p] = "done"
          /\ err[p] = ""
          /\ log[p][Len(log[p])] = "emit"
          /\ InLog(p, "check_protoc")
          /\ InLog(p, "check_src")
          /\ InLog(p, "compile_test_protos")
          /\ ~InLog(p, "pass_failed")
          /\ Count(p, "pass_ok") =
                Count(p, "compile_conformance") + Count(p, "compile_test_protos")
          /\ emitted[p] = "out/protobuf-" \o ver[p]
          /\ <<"out", "protobuf-" \o ver[p]>> \in fs
          /\ ToolchainPath(p) \in fs

\* a run that attempted both passes has emitted the value
C18_Witness ==
    /\ pc[p] = "done"
    /\ emitted[p] = "out/protobuf-" \o ver[p]
    /\ InLog(p, "compile_conformance")
    /\ Count(p, "pass_ok") = 2

\* the persistent artifact directory of the two runs' version, and what a
\* file system holds at and under it
Persistent == <<"out", "protobuf-25.8">>
PersistentTree(f) ==
    {q \in f : Len(q) >= 2 /\ SubSeq(q, 1, 2) = Persistent}

\* the staging prefix of run r and what is at and under it, renamed to the
\* persistent directory
Staging(r) == tempdir[r] \o <<"prefix">>
StagedTree(r) ==
    {Persistent \o SubSeq(q, 4, Len(q)) :
        q \in {x \in fs : Len(x) >= 3 /\ SubSeq(x, 1, 3) = Staging(r)}}

\* run r observed the persistent directory as absent
ObservedAbsent(r) == InLog(r, "build_protobuf")

\* C19 (publication under interleaving, under SpecConcurrent): two
\* interleaved runs for the same version that both observed the persistent
\* artifact directory as absent stage into distinct directories, and the
\* persistent directory changes only in the rename step of one run whose
\* build and harvest are finished, from absent or empty to the whole
\* subtree of that run's staging prefix: it never holds a part of a prefix
\* or a mixture of the two.
C19_PublicationUnderInterleaving ==
    [][ /\ (tempdir[p] # NoPath /\ tempdir[q_run] # NoPath =>
               tempdir[p] # tempdir[q_run])'
        /\ PersistentTree(fs') # PersistentTree(fs) =>
              \E r \in Procs :
                  /\ pc[r] = "rename"
                  /\ pc'[r] = "check_protoc"
                  /\ ObservedAbsent(r)
                  /\ InLog(r, "cmake_build")
                  /\ PersistentTree(fs) \subseteq {Persistent}
                  /\ PersistentTree(fs') = StagedTree(r)
                  /\ \A o \in Procs \ {r} :
                        StagedTree(o) \cap PersistentTree(fs') \subseteq
                            StagedTree(r)
      ]_vars

\* both runs observed the directory as absent and built; one has published
\* its prefix with the toolchain in it, the other could not rename
C19_Witness ==
    /\ ObservedAbsent(p) /\ ObservedAbsent(q_run)
    /\ InLog(p, "rename") /\ InLog(q_run, "rename")
    /\ pc[p] = "done"
    /\ err[q_run] = "failed to move protobuf dir"
    /\ Persistent \o <<"bin">> \in fs

====
